---- MODULE Spec2Model ----
(***************************************************************************)
(* A model of vision_parse.py: the checkpointed extraction loop            *)
(* process_pdf, the model client call_vision_model and the page            *)
(* rasterizer pdf_page_to_base64, together with the two files the loop     *)
(* owns (the checkpoint file and the final output file) and the external   *)
(* events of a run: the process being killed and process_pdf being         *)
(* started again with the same arguments.                                  *)
(***************************************************************************)
EXTENDS Integers, Sequences, FiniteSets, TLC

(***************************************************************************)
(* Bounds of the model.                                                    *)
(***************************************************************************)
\* the longest document: total_pages ranges over 1..MaxPages
MaxPages == 3
\* how many times process_pdf is started in one behaviour
MaxRuns == 3

Pages == 0..(MaxPages - 1)

(***************************************************************************)
(* JSON values.  A value is what json.loads can return for the model's     *)
(* content: an array, an object (of which Python iterates the keys), a     *)
(* number or null.  items are the elements of an array or the keys of an   *)
(* object; n is the value of a number.                                     *)
(***************************************************************************)
JList(s) == [kind |-> "list", items |-> s, n |-> 0]
JDict(ks) == [kind |-> "dict", items |-> ks, n |-> 0]
JNum(k) == [kind |-> "num", items |-> <<>>, n |-> k]
JNull == [kind |-> "null", items |-> <<>>, n |-> 0]

\* Python's truth value of a JSON value: `if questions:`
Truthy(v) ==
    CASE v.kind \in {"list", "dict"} -> v.items /= <<>>
      [] v.kind = "num" -> v.n /= 0
      [] OTHER -> FALSE

\* whether len(v) is defined: len of a number raises TypeError
HasLen(v) == v.kind \in {"list", "dict"}

\* len(v) where defined
PyLen(v) == Len(v.items)

\* what list.extend(v) appends: the elements of an array, the keys of an object
Iter(v) == v.items

(***************************************************************************)
(* The remote service's response to one request, and call_vision_model.    *)
(* The content of the first choice is a sequence of tokens: the labelled   *)
(* fence ```json, the bare fence ```, prose that is not JSON, or the text   *)
(* of one JSON value.                                                      *)
(***************************************************************************)
FenceJson == [t |-> "fence_json", v |-> JNull]
Fence == [t |-> "fence", v |-> JNull]
Prose == [t |-> "prose", v |-> JNull]
Json(v) == [t |-> "json", v |-> v]

\* requests.post raises, raise_for_status raises, response.json() raises
NetworkError == [outcome |-> "network_error", content |-> <<>>]
HttpError == [outcome |-> "http_error", content |-> <<>>]
BadEnvelope == [outcome |-> "bad_envelope", content |-> <<>>]
\* the envelope has no `choices`, or an empty one
NoChoices == [outcome |-> "no_choices", content |-> <<>>]
\* the envelope has a first choice with this content
Content(c) == [outcome |-> "ok", content |-> c]
\* no request has been answered
NoResp == [outcome |-> "none", content |-> <<>>]

Q1 == "q1"
Q2 == "q2"

FailResponses ==
    { NetworkError, HttpError, BadEnvelope, NoChoices,
      Content(<<Prose>>),
      Content(<<FenceJson, Prose, Fence>>) }

Responses ==
    FailResponses \cup
    { Content(<<Json(JList(<<>>))>>),
      Content(<<Prose, FenceJson, Json(JList(<<Q1>>)), Fence, Prose>>),
      Content(<<Fence, Json(JList(<<Q1, Q2>>)), Fence>>),
      Content(<<Json(JDict(<<"number", "question">>))>>),
      Content(<<Json(JNum(5))>>) }

\* s.split(sep): the segments of s between the tokens whose text contains sep
RECURSIVE SplitAt(_, _)
SplitAt(s, seps) ==
    IF s = <<>> THEN << <<>> >>
    ELSE LET rest == SplitAt(Tail(s), seps)
         IN  IF Head(s).t \in seps THEN << <<>> >> \o rest
             ELSE << <<Head(s)>> \o Head(rest) >> \o Tail(rest)

\* the tokens whose text contains ```json, and those whose text contains ```
HasFenceJson == {"fence_json"}
HasFence == {"fence", "fence_json"}

\* the fence-stripping of lines 68-71
StripFence(content) ==
    IF \E k \in 1..Len(content) : content[k].t \in HasFenceJson
    THEN SplitAt(SplitAt(content, HasFenceJson)[2], HasFence)[1]
    ELSE IF \E k \in 1..Len(content) : content[k].t \in HasFence
    THEN SplitAt(SplitAt(content, HasFence)[2], HasFence)[1]
    ELSE content

\* json.loads of the stripped content; a JSONDecodeError gives []
ParseJson(content) ==
    IF Len(content) = 1 /\ content[1].t = "json" THEN content[1].v
    ELSE JList(<<>>)

\* a call_vision_model that answers a missing `choices` with None
call_vision_model_none(resp) ==
    IF resp.outcome = "no_choices" THEN JNull
    ELSE IF resp.outcome /= "ok" THEN JList(<<>>)
    ELSE ParseJson(StripFence(resp.content))

\* call_vision_model, as a function of the service's response
call_vision_model(resp) ==
    IF resp.outcome /= "ok" THEN JList(<<>>)
    ELSE ParseJson(StripFence(resp.content))

(***************************************************************************)
(* Files.  A file is missing, or holds text that json.load rejects (also   *)
(* the empty or partial text that a write leaves when it is cut short), or *)
(* holds a JSON value: a bare array of questions, an object with some of   *)
(* the keys last_page and questions, or a value that is neither.           *)
(***************************************************************************)
Missing == [kind |-> "missing", keys |-> {}, last_page |-> 0, questions |-> <<>>]
Unparseable == [kind |-> "unparseable", keys |-> {}, last_page |-> 0, questions |-> <<>>]
OtherJson == [kind |-> "other", keys |-> {}, last_page |-> 0, questions |-> <<>>]
ListFile(qs) == [kind |-> "list", keys |-> {}, last_page |-> 0, questions |-> qs]
DictFile(ks, lp, qs) ==
    [kind |-> "dict", keys |-> ks,
     last_page |-> IF "last_page" \in ks THEN lp ELSE 0,
     questions |-> IF "questions" \in ks THEN qs ELSE <<>>]

BothKeys == {"last_page", "questions"}

\* json.dump(data, f): the checkpoint file's content after a completed write
DumpData(d) == DictFile(d.keys, d.last_page, d.questions)

\* a final save that writes the whole of data
DumpQuestionsWrapped(d) == DictFile(d.keys, d.last_page, d.questions)

\* json.dump(data["questions"], f): the output file's content
DumpQuestions(d) == ListFile(d.questions)

\* open(path, "w"): the file is truncated before anything is written
Truncate(f) == Unparseable

\* line 86: the state of a run that starts fresh
FreshData(sp) == [keys |-> BothKeys, last_page |-> sp - 1, questions |-> <<>>]

\* a load that resumes a {last_page, questions} checkpoint at start_page
LoadCheckpointFromStart(f, sp) ==
    IF f.kind = "dict" /\ "last_page" \in f.keys
    THEN [keys |-> f.keys, last_page |-> sp - 1, questions |-> f.questions]
    ELSE IF f.kind = "list"
    THEN [keys |-> BothKeys, last_page |-> sp - 1, questions |-> f.questions]
    ELSE FreshData(sp)

\* a load that takes a legacy array to have reached one page per question
LoadCheckpointLegacyLen(f, sp) ==
    IF f.kind = "dict" /\ "last_page" \in f.keys
    THEN [keys |-> f.keys, last_page |-> f.last_page, questions |-> f.questions]
    ELSE IF f.kind = "list"
    THEN [keys |-> BothKeys, last_page |-> sp - 1 + Len(f.questions),
          questions |-> f.questions]
    ELSE FreshData(sp)

\* a load that resumes at last_page but starts the questions over
LoadCheckpointDropQuestions(f, sp) ==
    IF f.kind = "dict" /\ "last_page" \in f.keys
    THEN [keys |-> f.keys, last_page |-> f.last_page, questions |-> <<>>]
    ELSE IF f.kind = "list"
    THEN [keys |-> BothKeys, last_page |-> sp - 1, questions |-> f.questions]
    ELSE FreshData(sp)

\* lines 86-102: the state process_pdf starts the loop with
LoadCheckpoint(f, sp) ==
    IF f.kind = "dict" /\ "last_page" \in f.keys
    THEN [keys |-> f.keys, last_page |-> f.last_page, questions |-> f.questions]
    ELSE IF f.kind = "list"
    THEN [keys |-> BothKeys, last_page |-> sp - 1, questions |-> f.questions]
    ELSE FreshData(sp)

\* lines 113-115: data after the answer of one page, where no exception is raised
ExtendQuestions(d, v) ==
    IF Truthy(v) THEN [d EXCEPT !.questions = d.questions \o Iter(v)] ELSE d

\* lines 113-115: whether the answer of one page raises (TypeError from len,
\* KeyError from data["questions"])
ExtendRaises(d, v) ==
    Truthy(v) /\ (~HasLen(v) \/ "questions" \notin d.keys)

\* a step that records the page it processed, not the page to resume at
AdvanceLastPageStale(d, idx) ==
    [d EXCEPT !.last_page = idx, !.keys = d.keys \cup {"last_page"}]

\* line 120
AdvanceLastPage(d, idx) ==
    [d EXCEPT !.last_page = idx + 1, !.keys = d.keys \cup {"last_page"}]

Q0 == "q0"

\* the checkpoint files a first run may find
InitialCheckpoints ==
    { Missing, Unparseable, OtherJson,
      ListFile(<<>>), ListFile(<<Q0>>), ListFile(<<Q0, Q1>>) }
    \cup { DictFile(BothKeys, lp, qs) : lp \in 0..MaxPages, qs \in {<<>>, <<Q0>>} }
    \cup { DictFile({"last_page"}, lp, <<>>) : lp \in {0, 1} }
    \cup { DictFile({"questions"}, 0, <<Q0>>), DictFile({}, 0, <<>>) }

\* the output files a first run may find
InitialOutputs == { Missing, ListFile(<<Q0>>) }

(***************************************************************************)
(* State.                                                                  *)
(***************************************************************************)
VARIABLES
    total_pages,    \* len(doc)
    start_page,     \* the argument start_page
    checkpoint,     \* the file at checkpoint_path
    output,         \* the file at output_path
    pc,             \* where the process is
    data,           \* the dictionary data
    i,              \* the loop index: the page the loop is at, or comes to next
    questions,      \* the local questions: what call_vision_model returned
    served,         \* per page, the answer the service has given for it (SpecResume)
    runs,           \* how many times process_pdf has been started
    prevEnd,        \* how the run before this one ended
    loaded,         \* the checkpoint file this run found
    first,          \* the index this run's loop started at
    rendered,       \* the page indices this run rasterized, in order
    sent,           \* the page indices this run sent to the model, in order
    sentAll,        \* per page, the requests sent for it over all runs (SpecResume)
    counts,         \* the question counts of the pages this run completed
    prevQ,          \* data's questions when the current page's step began
    durable,        \* the content of the latest completed checkpoint write
    abortAt,        \* where an exception ended this run
    hadFail,        \* whether a model call has failed in this run
    lastFailed,     \* whether this run's latest model call failed
    outWrites       \* how many times this run opened the output file for writing

vars ==
    << total_pages, start_page, checkpoint, output, pc, data, i, questions,
       served, runs, prevEnd, loaded, first, rendered, sent, sentAll, counts,
       prevQ, durable, abortAt, hadFail, lastFailed, outWrites >>

args == << total_pages, start_page >>
files == << checkpoint, output >>
runHistory == << rendered, sent, counts, abortAt, hadFail, lastFailed, outWrites >>

Running == {"loop", "raster", "call", "append", "persist", "dump", "sleep",
            "final", "final_dump"}
Stopped == {"init", "killed", "aborted", "done"}

Init ==
    /\ total_pages \in 1..MaxPages
    /\ start_page \in 1..MaxPages
    /\ checkpoint \in InitialCheckpoints
    /\ output \in InitialOutputs
    /\ pc = "init"
    /\ data = FreshData(start_page)
    /\ i = 0
    /\ questions = JList(<<>>)
    /\ served = [p \in Pages |-> NoResp]
    /\ runs = 0
    /\ prevEnd = "init"
    /\ loaded = Missing
    /\ first = 0
    /\ rendered = <<>>
    /\ sent = <<>>
    /\ sentAll = [p \in Pages |-> 0]
    /\ counts = <<>>
    /\ prevQ = <<>>
    /\ durable = Missing
    /\ abortAt = "none"
    /\ hadFail = FALSE
    /\ lastFailed = FALSE
    /\ outWrites = 0

(***************************************************************************)
(* process_pdf, step by step.                                              *)
(***************************************************************************)
\* lines 82-102 and the evaluation of range(data["last_page"], total_pages):
\* process_pdf is started (again), with the same arguments
Start ==
    /\ pc \in Stopped
    /\ runs < MaxRuns
    /\ runs' = runs + 1
    /\ prevEnd' = pc
    /\ loaded' = checkpoint
    /\ data' = LoadCheckpoint(checkpoint, start_page)
    /\ i' = data'.last_page
    /\ first' = data'.last_page
    /\ questions' = JList(<<>>)
    /\ prevQ' = data'.questions
    /\ rendered' = <<>>
    /\ sent' = <<>>
    /\ counts' = <<>>
    /\ abortAt' = "none"
    /\ hadFail' = FALSE
    /\ lastFailed' = FALSE
    /\ outWrites' = 0
    /\ pc' = "loop"
    /\ UNCHANGED << args, files, served, sentAll, durable >>

\* line 105: the loop has a next page
LoopNext ==
    /\ pc = "loop"
    /\ i < total_pages
    /\ pc' = "raster"
    /\ prevQ' = data.questions
    /\ UNCHANGED << args, files, data, i, questions, served, runs, prevEnd,
                    loaded, first, sentAll, durable, runHistory >>

\* line 105: the range is exhausted
LoopExit ==
    /\ pc = "loop"
    /\ i >= total_pages
    /\ pc' = "final"
    /\ UNCHANGED << args, files, data, i, questions, served, runs, prevEnd,
                    loaded, first, sentAll, prevQ, durable, runHistory >>

\* lines 108-110, pdf_page_to_base64 returns
Rasterize ==
    /\ pc = "raster"
    /\ rendered' = Append(rendered, i)
    /\ pc' = "call"
    /\ UNCHANGED << args, files, data, i, questions, served, runs, prevEnd,
                    loaded, first, sent, sentAll, counts, prevQ, durable,
                    abortAt, hadFail, lastFailed, outWrites >>

\* a loop that catches the rasterizer's exception and goes on to the model call
RasterErrorSwallowed == "call"

\* where an exception raised while rasterizing page i leaves the process:
\* nothing in process_pdf catches it
RasterErrorTarget == "aborted"

\* lines 108-110, pdf_page_to_base64 raises
RasterError ==
    /\ pc = "raster"
    /\ pc' = RasterErrorTarget
    /\ abortAt' = "raster"
    /\ UNCHANGED << args, files, data, i, questions, served, runs, prevEnd,
                    loaded, first, rendered, sent, sentAll, counts, prevQ,
                    durable, hadFail, lastFailed, outWrites >>

\* line 111: one request, answered by resp
CallModel(resp) ==
    /\ pc = "call"
    /\ questions' = call_vision_model(resp)
    /\ sent' = Append(sent, i)
    /\ hadFail' = (hadFail \/ resp \in FailResponses)
    /\ lastFailed' = (resp \in FailResponses)
    /\ pc' = "append"
    /\ UNCHANGED << args, files, data, i, runs, prevEnd, loaded, first,
                    rendered, counts, prevQ, durable, abortAt, outWrites >>

\* line 111, where the service may answer each request as it likes
CallAny ==
    \E resp \in Responses :
        /\ CallModel(resp)
        /\ UNCHANGED << served, sentAll >>

\* lines 113-117
AppendQuestions ==
    /\ pc = "append"
    /\ IF ExtendRaises(data, questions)
       THEN /\ pc' = "aborted"
            /\ abortAt' = "append"
            /\ data' = data
       ELSE /\ pc' = "persist"
            /\ abortAt' = abortAt
            /\ data' = ExtendQuestions(data, questions)
    /\ UNCHANGED << args, files, i, questions, served, runs, prevEnd, loaded,
                    first, rendered, sent, sentAll, counts, prevQ, durable,
                    hadFail, lastFailed, outWrites >>

\* lines 120-121: last_page advances and the checkpoint file is opened for writing
OpenCheckpoint ==
    /\ pc = "persist"
    /\ data' = AdvanceLastPage(data, i)
    /\ checkpoint' = Truncate(checkpoint)
    /\ pc' = "dump"
    /\ UNCHANGED << args, output, i, questions, served, runs, prevEnd, loaded,
                    first, sentAll, prevQ, durable, runHistory >>

\* line 122 and the end of the with block: the write is complete
DumpCheckpoint ==
    /\ pc = "dump"
    /\ checkpoint' = DumpData(data)
    /\ durable' = DumpData(data)
    /\ counts' = Append(counts, IF Truthy(questions) THEN PyLen(questions) ELSE 0)
    /\ pc' = "sleep"
    /\ UNCHANGED << args, output, data, i, questions, served, runs, prevEnd,
                    loaded, first, rendered, sent, sentAll, prevQ, abortAt,
                    hadFail, lastFailed, outWrites >>

\* line 125 and the loop's next index
Sleep ==
    /\ pc = "sleep"
    /\ i' = i + 1
    /\ questions' = JList(<<>>)
    /\ pc' = "loop"
    /\ UNCHANGED << args, files, data, served, runs, prevEnd, loaded, first,
                    sentAll, prevQ, durable, runHistory >>

\* line 128: the output file is opened for writing
OpenOutput ==
    /\ pc = "final"
    /\ output' = Truncate(output)
    /\ outWrites' = outWrites + 1
    /\ pc' = "final_dump"
    /\ UNCHANGED << args, checkpoint, data, i, questions, served, runs,
                    prevEnd, loaded, first, rendered, sent, sentAll, counts,
                    prevQ, durable, abortAt, hadFail, lastFailed >>

\* line 129: data["questions"] is written, or raises KeyError
DumpOutput ==
    /\ pc = "final_dump"
    /\ IF "questions" \in data.keys
       THEN /\ output' = DumpQuestions(data)
            /\ pc' = "done"
            /\ abortAt' = abortAt
       ELSE /\ output' = output
            /\ pc' = "aborted"
            /\ abortAt' = "final"
    /\ UNCHANGED << args, checkpoint, data, i, questions, served, runs,
                    prevEnd, loaded, first, rendered, sent, sentAll, counts,
                    prevQ, durable, hadFail, lastFailed, outWrites >>

\* the process is terminated from outside, wherever it is
Kill ==
    /\ pc \in Running
    /\ pc' = "killed"
    /\ UNCHANGED << args, files, data, i, questions, served, runs, prevEnd,
                    loaded, first, sentAll, prevQ, durable, runHistory >>

Next ==
    \/ Start
    \/ LoopNext
    \/ LoopExit
    \/ Rasterize
    \/ RasterError
    \/ CallAny
    \/ AppendQuestions
    \/ OpenCheckpoint
    \/ DumpCheckpoint
    \/ Sleep
    \/ OpenOutput
    \/ DumpOutput
    \/ Kill

Spec == Init /\ [][Next]_vars

(***************************************************************************)
(* The second specification: a fixed document whose pages the service      *)
(* always answers the same way, a first run that finds no checkpoint, and  *)
(* kills that fall between two per-page steps only.                        *)
(***************************************************************************)
\* the answers the service is fixed to, one of each effect on the loop
ResumeResponses ==
    { NetworkError,
      Content(<<Prose, FenceJson, Json(JList(<<Q1>>)), Fence, Prose>>),
      Content(<<Fence, Json(JList(<<Q1, Q2>>)), Fence>>),
      Content(<<Json(JDict(<<"number", "question">>))>>),
      Content(<<Json(JNum(5))>>) }

InitResume ==
    /\ Init
    /\ checkpoint = Missing

\* process_pdf is started for the first time, or again after a kill
StartResume ==
    /\ pc \in {"init", "killed"}
    /\ Start

\* line 111, where the service answers a page the way it answered it before
CallFixed ==
    \E resp \in ResumeResponses :
        /\ pc = "call"
        /\ served[i] \in {NoResp, resp}
        /\ CallModel(resp)
        /\ served' = [served EXCEPT ![i] = resp]
        /\ sentAll' = [sentAll EXCEPT ![i] = @ + 1]

\* the process is terminated after a page's checkpoint write and before the
\* next page is taken up
KillBetween ==
    /\ pc \in {"sleep", "loop"}
    /\ Kill

NextResume ==
    \/ StartResume
    \/ LoopNext
    \/ LoopExit
    \/ Rasterize
    \/ CallFixed
    \/ AppendQuestions
    \/ OpenCheckpoint
    \/ DumpCheckpoint
    \/ Sleep
    \/ OpenOutput
    \/ DumpOutput
    \/ KillBetween

SpecResume == InitResume /\ [][NextResume]_vars

(***************************************************************************)
(* Properties.                                                             *)
(***************************************************************************)
IsPrefix(a, b) == Len(a) <= Len(b) /\ SubSeq(b, 1, Len(a)) = a

RECURSIVE Sum(_)
Sum(s) == IF s = <<>> THEN 0 ELSE Head(s) + Sum(Tail(s))

\* the run has been started and has taken no step of the loop yet
JustStarted == pc = "loop" /\ i = first /\ rendered = <<>>

\* the two checkpoint shapes the specification accepts
Accepted(f) == (f.kind = "dict" /\ f.keys = BothKeys) \/ f.kind = "list"

\* the shape process_pdf resumes from
Resumable(f) == f.kind = "dict" /\ "last_page" \in f.keys

\* C1: when process_pdf is started again after a kill, every page whose
\* checkpoint write had completed is behind the index the run resumes at, and
\* the questions of that write are still the start of the accumulated sequence.
C1_KillLosesAtMostOnePage ==
    (JustStarted /\ prevEnd = "killed" /\ durable.kind = "dict")
        => /\ data.last_page >= durable.last_page
           /\ IsPrefix(durable.questions, data.questions)

\* C2: a failed model call makes call_vision_model return the empty sequence;
\* the page adds no question, last_page advances past it and is persisted, the
\* failure never aborts the run, and a run that ends after a failure has left
\* the checkpoint at last_page = total_pages.
C2_ModelFailureAbsorbed ==
    /\ (lastFailed /\ pc \in {"append", "persist", "dump", "sleep"})
           => questions = JList(<<>>)
    /\ (lastFailed /\ pc \in {"persist", "dump", "sleep"})
           => data.questions = prevQ
    /\ (lastFailed /\ pc = "sleep")
           => /\ data.last_page = i + 1
              /\ checkpoint = DictFile(data.keys, i + 1, prevQ)
    /\ lastFailed => abortAt /= "append"
    /\ (hadFail /\ pc = "done")
           => checkpoint.kind = "dict" /\ checkpoint.last_page = total_pages

\* a run that went on after a failed call on a page before the last, gathered
\* questions from another page and ended
C2_Witness ==
    /\ pc = "done"
    /\ hadFail
    /\ ~lastFailed
    /\ \E k \in 1..Len(counts) : counts[k] = 0
    /\ \E k \in 1..Len(counts) : counts[k] > 0

\* C3: a run that found a checkpoint file of neither accepted shape starts
\* the loop at start_page - 1 with an empty question sequence and is not
\* aborted because of what the file holds.
C3_UnacceptedCheckpointStartsFresh ==
    (pc /= "init" /\ ~Accepted(loaded))
        => /\ first = start_page - 1
           /\ JustStarted => data = FreshData(start_page)
           /\ ~(pc = "aborted" /\ "questions" \notin data.keys)

\* C4 as stated: after N pages of a run, however it started, the checkpoint's
\* last_page is start_page - 1 + N and it holds as many questions as the
\* pages returned.
C4_CheckpointCountsFromStartPage ==
    pc = "sleep"
        => /\ checkpoint.last_page = start_page - 1 + Len(counts)
           /\ Len(checkpoint.questions) = Sum(counts)

\* C4 as amended: after N pages of a run, the checkpoint's last_page is N
\* past the index the run started at (the checkpoint's last_page for a
\* resumed run, start_page - 1 otherwise), and the questions it holds, when
\* it holds any, are as many as the run started with plus what the pages
\* returned.
C4_CheckpointCountsFromLoaded ==
    pc = "sleep"
        => /\ checkpoint.kind = "dict"
           /\ "last_page" \in checkpoint.keys
           /\ checkpoint.last_page =
                  (IF Resumable(loaded) THEN loaded.last_page ELSE start_page - 1)
                  + Len(counts)
           /\ "questions" \in checkpoint.keys
                  => Len(checkpoint.questions) =
                         (IF Resumable(loaded) \/ loaded.kind = "list"
                          THEN Len(loaded.questions) ELSE 0)
                         + Sum(counts)

\* a resumed run, two pages on, with questions from the file and from the model
C4_Witness ==
    /\ pc = "sleep"
    /\ Len(counts) = 2
    /\ Sum(counts) >= 2
    /\ Resumable(loaded)
    /\ loaded.last_page /= start_page - 1
    /\ loaded.questions /= <<>>

\* C5: a run that found a checkpoint {last_page, questions} starts the loop
\* at last_page whatever start_page is, rasterizes and sends that page first
\* and no page before it, and keeps the loaded questions as the start of the
\* accumulated sequence.
C5_ResumesAtLastPage ==
    (pc /= "init" /\ loaded.kind = "dict" /\ loaded.keys = BothKeys)
        => /\ first = loaded.last_page
           /\ rendered /= <<>> => rendered[1] = loaded.last_page
           /\ sent /= <<>> => sent[1] = loaded.last_page
           /\ \A k \in 1..Len(rendered) : rendered[k] >= loaded.last_page
           /\ \A k \in 1..Len(sent) : sent[k] >= loaded.last_page
           /\ IsPrefix(loaded.questions, data.questions)
           /\ JustStarted => data.questions = loaded.questions

\* a run resumed at a page other than the configured one, which has sent a
\* page and gathered questions after the loaded ones
C5_Witness ==
    /\ loaded.kind = "dict"
    /\ loaded.keys = BothKeys
    /\ loaded.questions /= <<>>
    /\ loaded.last_page /= start_page - 1
    /\ Len(sent) >= 1
    /\ Len(data.questions) > Len(loaded.questions)

\* C6: the output file is opened for writing once, and only when the loop
\* index has reached total_pages; after a complete run it holds the bare
\* array data["questions"], which is the questions array of the checkpoint
\* file as last written.
C6_OutputIsLastCheckpointQuestions ==
    /\ outWrites <= 1
    /\ outWrites > 0
           => i >= total_pages /\ pc \in {"final_dump", "done", "aborted", "killed"}
    /\ pc = "done"
           => /\ outWrites = 1
              /\ output = ListFile(data.questions)
              /\ counts /= <<>> => Resumable(checkpoint)
              /\ Resumable(checkpoint) => output.questions = checkpoint.questions

\* a complete run over an earlier output file, with pages processed and
\* questions gathered
C6_Witness ==
    /\ pc = "done"
    /\ Len(counts) >= 2
    /\ Len(output.questions) >= 2
    /\ output /= ListFile(<<Q0>>)

\* C7: a run that found a bare array keeps its questions, in order, as the
\* start of the accumulated sequence and starts the loop at start_page - 1
\* whatever the array's length.
C7_LegacyArrayKeptFromStartPage ==
    (pc /= "init" /\ loaded.kind = "list")
        => /\ first = start_page - 1
           /\ rendered /= <<>> => rendered[1] = start_page - 1
           /\ IsPrefix(loaded.questions, data.questions)
           /\ JustStarted => data = [keys |-> BothKeys,
                                     last_page |-> start_page - 1,
                                     questions |-> loaded.questions]

\* a run over a legacy array of two questions that has gathered more
C7_Witness ==
    /\ loaded = ListFile(<<Q0, Q1>>)
    /\ Len(sent) >= 1
    /\ Len(data.questions) > 2

\* C8: a rasterization error on page i ends the run there: no request was
\* sent for page i or a later page, the checkpoint file is as written after
\* page i-1 (as found, if i is the run's first page) and the output file was
\* not opened.
C8_RasterErrorEndsRun ==
    abortAt = "raster"
        => /\ pc = "aborted"
           /\ \A k \in 1..Len(sent) : sent[k] < i
           /\ Len(sent) = Len(counts)
           /\ outWrites = 0
           /\ checkpoint = (IF counts /= <<>>
                            THEN DictFile(data.keys, i, data.questions)
                            ELSE loaded)

\* a rasterization error on a page after the run's first
C8_Witness ==
    /\ abortAt = "raster"
    /\ pc = "aborted"
    /\ Len(counts) >= 1
    /\ data.questions /= <<>>

\* C9: whatever call_vision_model returns for a page, the page's step
\* completes: the answer never aborts the run, last_page advances to i+1 and
\* is persisted, and the accumulated questions gain the elements of the
\* returned array and nothing else.
C9_EveryAnswerCompletesStep ==
    /\ ~(pc = "aborted" /\ abortAt = "append" /\ "questions" \in data.keys)
    /\ (pc = "sleep" /\ "questions" \in data.keys)
           => /\ data.last_page = i + 1
              /\ checkpoint = DumpData(data)
              /\ data.questions =
                     prevQ \o (IF questions.kind = "list" THEN questions.items
                               ELSE <<>>)

\* the questions an uninterrupted run gathers from pages lo..hi-1, the service
\* answering as in served
RECURSIVE Gathered(_, _)
Gathered(lo, hi) ==
    IF lo >= hi THEN <<>>
    ELSE Gathered(lo, hi - 1)
         \o (IF Truthy(call_vision_model(served[hi - 1]))
             THEN Iter(call_vision_model(served[hi - 1])) ELSE <<>>)

\* C10: killed between per-page steps and restarted any number of times, the
\* runs together send one request for each page from start_page - 1 to
\* total_pages - 1 and none for another, and the output is that of a single
\* uninterrupted run.
C10_ResumeIsUninterruptedRun ==
    /\ \A p \in Pages : sentAll[p] <= 1
    /\ pc = "done"
           => /\ \A p \in Pages :
                     sentAll[p] = IF start_page - 1 <= p /\ p < total_pages
                                  THEN 1 ELSE 0
              /\ output = ListFile(Gathered(start_page - 1, total_pages))

\* a run killed and restarted twice that ends with questions of several pages
C10_Witness ==
    /\ pc = "done"
    /\ runs >= 3
    /\ start_page = 1
    /\ total_pages >= 3
    /\ Len(output.questions) >= 3

====
